---- MODULE Spec2Model ----
(***************************************************************************)
(* Model of H_server/server_ws.py: the room registry, the per-room event   *)
(* log, broadcast, and the per-connection coroutine websocket_endpoint.    *)
(*                                                                         *)
(* One task runs per websocket.  A step of the model is the code one task  *)
(* runs between two suspension points (await receive_json / send_json /    *)
(* a wait for the room lock): asyncio never interleaves inside it.         *)
(***************************************************************************)
EXTENDS Integers, Sequences, FiniteSets, TLC

(* ------------------------------ bounds -------------------------------- *)
\* websockets accepted by the server
MaxConns == 3
\* messages the clients send after their join, all connections together
MaxMsgs == 2
\* websockets of the session specification
NumSessionConns == 2
\* messages after the joins in SpecJoin
MaxJoinMsgs == 1
\* take requests in SpecTake
MaxTakes == 3
\* actions of a game in SpecGame
MaxGameMsgs == 4
\* start requests in SpecDeal
MaxStarts == 1
\* transport drops (a client going away without a leave message)
MaxDrops == 1
\* actions in SpecPenalty
MaxPenaltyMsgs == 4
\* messages after the joins in SpecRooms
MaxRoomMsgs == 2
\* role changes in SpecRoles
MaxRoleMsgs == 3
\* messages after the joins in SpecErrors
MaxErrMsgs == 3
\* rooms pre-created at import (ensure_fixed_rooms('room', 10), scaled)
NumFixedRooms == 1
\* rooms make_room may add
MaxAdhocRooms == 2
\* cards on the table (10 in the source, scaled); the game ends at NumCards - 1
NumCards == 3
\* retention bound of the event log (1000 in the source, scaled)
MAX_EVENTS_PER_ROOM == 3

(* ------------------------- program constants -------------------------- *)
\* make_room(max_players: int = 2)
DefaultMaxPlayers == 2

\* range(100): the letters; the source has 10 letters per card
NumLetters == 2 * NumCards
\* pool[:9]: the decoys of a play sequence, one less than the cards
NumExtra == NumCards - 1
\* taken_count >= 9: the threshold that finishes a game
FinishCount == NumCards - 1

Conns == 1 .. MaxConns
Names == {"ann", "bob"}
Anonymous == "(anonymous)"

\* stand-ins for Python's None / missing key / empty string
NoRoom == 0
NoTask == 0
NoId == 0
Null == "null"
NoEvt == [id |-> 0, type |-> "none"]
NoMeta == [role |-> "none", id |-> NoId, name |-> ""]
NoMsg == [type |-> "none"]
NoPlayer == [player_id |-> NoId, name |-> "", slot |-> -1]
NoSpectator == [spectator_id |-> NoId, name |-> ""]

FixedRoomIds == 1 .. NumFixedRooms
AdhocRoomIds == (NumFixedRooms + 1) .. (NumFixedRooms + MaxAdhocRooms)

\* an empty dict ({} in the source)
EmptyDict == [n \in {} |-> 0]

Min(S) == CHOOSE x \in S : \A y \in S : x <= y
Max2(a, b) == IF a >= b THEN a ELSE b
Last(s) == s[Len(s)]
Range(s) == {s[i] : i \in 1 .. Len(s)}

VARIABLES
    rooms,      \* the registry: room id -> room (the module-level dict `rooms`)
    tasks,      \* per websocket: the locals of its websocket_endpoint coroutine
    sock,       \* per websocket: the transport (open or not, frames delivered)
    appended,   \* history: room id -> every event add_event ever returned
    issued,     \* number of tokens secrets.token_urlsafe has generated
    nmsgs,      \* messages received after a join (bounded by MaxMsgs)
    ndrops      \* transport drops so far (bounded by MaxDrops)

vars == <<rooms, tasks, sock, appended, issued, nmsgs, ndrops>>

(* ------------------------------ registry ------------------------------ *)
\* the dict make_room / create_room_with_id build (card_letters: a sample)
new_room(room_id, max_players, card_letters) ==
    [room_id |-> room_id,
     players |-> <<>>,
     spectators |-> <<>>,
     owners |-> [i \in 1 .. NumCards |-> ""],
     card_letters |-> card_letters,
     penalties |-> EmptyDict,
     play_sequence |-> <<>>,
     started |-> FALSE,
     events |-> <<>>,
     next_event_id |-> 1,
     max_players |-> max_players,
     connections |-> {},
     lock |-> NoTask]

\* the sample every room of the model is dealt at creation
FirstDeal == [i \in 1 .. NumCards |-> i - 1]

\* a variant of the id choice that takes a candidate without looking it up
any_room_id(rms) == CHOOSE c \in FixedRoomIds \cup AdhocRoomIds : TRUE

\* gen_id retried until the candidate is not a key of rooms
fresh_room_id(rms) == CHOOSE c \in AdhocRoomIds : c \notin DOMAIN rms

\* make_room: the registry after rooms[room_id] = room
make_room(rms) ==
    LET room_id == fresh_room_id(rms)
    IN  [r \in DOMAIN rms \cup {room_id} |->
            IF r = room_id THEN new_room(room_id, DefaultMaxPlayers, FirstDeal)
            ELSE rms[r]]

\* ensure_fixed_rooms at module import
ensure_fixed_rooms ==
    [r \in FixedRoomIds |-> new_room(r, DefaultMaxPlayers, FirstDeal)]

find_player(room, player_id) ==
    LET hit == {i \in 1 .. Len(room.players) : room.players[i].player_id = player_id}
    IN  IF hit = {} THEN NoPlayer ELSE room.players[Min(hit)]

find_spectator(room, spectator_id) ==
    LET hit == {i \in 1 .. Len(room.spectators) :
                    room.spectators[i].spectator_id = spectator_id}
    IN  IF hit = {} THEN NoSpectator ELSE room.spectators[Min(hit)]

(* ------------------------------ event log ----------------------------- *)
\* a variant of add_event that numbers an event by the length of the list
add_event_numbered_by_length(room, etype, payload) ==
    LET eid == Len(room.events) + 1
        evt == [id |-> eid, type |-> etype, payload |-> payload]
        all == Append(room.events, evt)
        drop == Len(all) - MAX_EVENTS_PER_ROOM
    IN  [room |-> [room EXCEPT
                      !.events = IF Len(all) > MAX_EVENTS_PER_ROOM
                                 THEN SubSeq(all, drop + 1, Len(all))
                                 ELSE all,
                      !.next_event_id = eid + 1],
         evt |-> evt]

\* a variant of add_event that trims the list at its end (events[:MAX])
add_event_keeping_oldest(room, etype, payload) ==
    LET eid == room.next_event_id
        evt == [id |-> eid, type |-> etype, payload |-> payload]
        all == Append(room.events, evt)
    IN  [room |-> [room EXCEPT
                      !.events = IF Len(all) > MAX_EVENTS_PER_ROOM
                                 THEN SubSeq(all, 1, MAX_EVENTS_PER_ROOM)
                                 ELSE all,
                      !.next_event_id = eid + 1],
         evt |-> evt]

\* add_event: the room after the append and the event returned
add_event(room, etype, payload) ==
    LET eid == room.next_event_id
        evt == [id |-> eid, type |-> etype, payload |-> payload]
        all == Append(room.events, evt)
        drop == Len(all) - MAX_EVENTS_PER_ROOM
    IN  [room |-> [room EXCEPT
                      !.events = IF Len(all) > MAX_EVENTS_PER_ROOM
                                 THEN SubSeq(all, drop + 1, Len(all))
                                 ELSE all,
                      !.next_event_id = eid + 1],
         evt |-> evt]

\* the frame a handler broadcasts for an event
EventFrame(evt) == [type |-> evt.type, id |-> evt.id, payload |-> evt.payload]
ErrorFrame(e) == [type |-> "error", error |-> e]

(* ------------------------------- slots -------------------------------- *)
\* a variant of the capacity test that refuses one player too late
room_full_above_capacity(room) == Len(room.players) > room.max_players

\* len(room["players"]) >= room["meta"].get("max_players", 2)
room_full(room) == Len(room.players) >= room.max_players

\* slot = 0; while slot in used_slots: slot += 1
RECURSIVE first_free(_, _)
first_free(used_slots, slot) ==
    IF slot \in used_slots THEN first_free(used_slots, slot + 1) ELSE slot

\* a variant of the slot choice that numbers a player by the list length
free_slot_by_count(room) == Len(room.players)

free_slot(room) == first_free({room.players[i].slot : i \in 1 .. Len(room.players)}, 0)

(* ------------------------------- tasks -------------------------------- *)
\* the locals of one websocket_endpoint coroutine, and where it stands:
\*   pc      "await_join" | "loop" (await receive_json) | "send" (await
\*           websocket.send_json of the head of plan) | "broadcast" (inside
\*           broadcast's for loop) | "prune" (broadcast waits for the lock)
\*           | "finally" (about to run the cleanup) | "done"
\*   plan    what the handler still does after the current suspension
\*   next    where the coroutine goes when plan is exhausted
\*   msg, conns, to_remove   the locals of the running broadcast
InitTask ==
    [pc |-> "await_join", room |-> NoRoom, client_meta |-> NoMeta,
     fin_evt |-> NoEvt, plan |-> <<>>, next |-> "loop", closed |-> FALSE,
     msg |-> NoMsg, conns |-> {}, to_remove |-> {}]

Send(m) == [op |-> "send", msg |-> m]
Broadcast(m) == [op |-> "broadcast", msg |-> m]
Unlock == [op |-> "unlock"]
Discard == [op |-> "discard"]
Close == [op |-> "close"]

\* a variant of the lock that lets every task in
lock_never_held(room) == TRUE

\* `async with room["lock"]` goes on without waiting: nobody holds the lock
lock_free(room) == room.lock = NoTask

\* websocket.send_json(c) succeeds: the transport is up and nobody closed it
Usable(c) == sock[c].open /\ ~tasks[c].closed /\ tasks[c].pc # "done"

\* a variant of the snapshot that takes every websocket of the server
every_connection(rm) == Conns

\* set(room.get("connections", set())): the snapshot broadcast sends to
room_connections(rm) == rm.connections

\* Run task t (locals tk, room rm) from its current point to its next
\* suspension: the end of an `async with` releases the lock, broadcast()
\* snapshots room["connections"] and returns at once when it is empty.
RECURSIVE Run(_, _, _)
Run(t, tk, rm) ==
    IF tk.plan = <<>> THEN [tk |-> [tk EXCEPT !.pc = tk.next], rm |-> rm]
    ELSE LET h == Head(tk.plan)
             rest == [tk EXCEPT !.plan = Tail(tk.plan)]
         IN  CASE h.op = "send" -> [tk |-> [tk EXCEPT !.pc = "send"], rm |-> rm]
               [] h.op = "unlock" -> Run(t, rest, [rm EXCEPT !.lock = NoTask])
               [] h.op = "discard" ->
                    Run(t, rest, [rm EXCEPT !.connections = @ \ {t}])
               [] h.op = "close" -> Run(t, [rest EXCEPT !.closed = TRUE], rm)
               [] h.op = "broadcast" ->
                    IF room_connections(rm) = {} THEN Run(t, rest, rm)
                    ELSE [tk |-> [rest EXCEPT !.pc = "broadcast", !.msg = h.msg,
                                              !.conns = room_connections(rm),
                                              !.to_remove = {}],
                          rm |-> rm]

\* the writes of one step of task t in room rid of registry rms
Step(t, tk, rms, rid, rm, evts) ==
    LET r == Run(t, tk, rm)
    IN  /\ tasks' = [tasks EXCEPT ![t] = r.tk]
        /\ rooms' = [rms EXCEPT ![rid] = r.rm]
        /\ appended' = [x \in DOMAIN rms |->
                          IF x = rid
                          THEN (IF x \in DOMAIN appended THEN appended[x] ELSE <<>>) \o evts
                          ELSE appended[x]]

\* websocket.send_json delivers a frame: the frames a task sends on its own
\* socket (replies, errors) are kept in order, the frames broadcast() sends
\* to a socket are kept as a set
Reply(c, m) == sock' = [sock EXCEPT ![c].replies = Append(@, m)]
Deliver(c, m) == sock' = [sock EXCEPT ![c].events = @ \cup {m}]

(* -------------------------------- Init -------------------------------- *)
Init ==
    /\ rooms = ensure_fixed_rooms
    /\ tasks = [t \in Conns |-> InitTask]
    /\ sock = [t \in Conns |-> [open |-> TRUE, replies |-> <<>>, events |-> {}]]
    /\ appended = [r \in FixedRoomIds |-> <<>>]
    /\ issued = 0
    /\ nmsgs = 0
    /\ ndrops = 0

(* --------------------------- join handshake --------------------------- *)
\* The websockets are interchangeable: the first messages are taken in the
\* order of the connection numbers (a symmetry reduction).
FirstMessageTurn(t) == \A u \in Conns : u < t => tasks[u].pc # "await_join"

\* the first message is not a join (lines 230-233): error, close, return;
\* room is None, so the finally block does nothing
FirstNotJoin(t) ==
    /\ tasks[t].pc = "await_join"
    /\ FirstMessageTurn(t)
    /\ sock[t].open
    /\ Reply(t, ErrorFrame("first message must be join"))
    /\ tasks' = [tasks EXCEPT ![t].pc = "done", ![t].closed = TRUE]
    /\ UNCHANGED <<rooms, appended, issued, nmsgs, ndrops>>

\* a join naming a room id that is not in the registry (lines 244-248)
JoinRoomNotFound(t, room_id) ==
    /\ tasks[t].pc = "await_join"
    /\ FirstMessageTurn(t)
    /\ sock[t].open
    /\ room_id # NoRoom
    /\ room_id \notin DOMAIN rooms
    /\ Reply(t, ErrorFrame("room not found"))
    /\ tasks' = [tasks EXCEPT ![t].pc = "done", ![t].closed = TRUE]
    /\ UNCHANGED <<rooms, appended, issued, nmsgs, ndrops>>

\* a join whose room_id is a JSON array or object: rooms.get(room_id) raises
\* TypeError (unhashable), nothing catches it and the coroutine falls to the
\* finally block with room None; no frame is sent
JoinUnhashableRoomId(t) ==
    /\ tasks[t].pc = "await_join"
    /\ FirstMessageTurn(t)
    /\ sock[t].open
    /\ tasks' = [tasks EXCEPT ![t].pc = "finally"]
    /\ UNCHANGED <<rooms, sock, appended, issued, nmsgs, ndrops>>

\* a join (lines 235-295): room_id NoRoom stands for a missing or null id
Join(t, room_id, role, name) ==
    LET tk == tasks[t]
        rms == IF room_id = NoRoom THEN make_room(rooms) ELSE rooms
        rid == IF room_id = NoRoom THEN fresh_room_id(rooms) ELSE room_id
        room == rms[rid]
        locked == [room EXCEPT !.lock = t, !.connections = @ \cup {t}]
        tk1 == [tk EXCEPT !.room = rid]
    IN  /\ tk.pc = "await_join"
        /\ FirstMessageTurn(t)
        /\ sock[t].open
        /\ IF room_id = NoRoom
           THEN Cardinality(DOMAIN rooms) < NumFixedRooms + MaxAdhocRooms
           ELSE room_id \in DOMAIN rooms
        /\ lock_free(room)
        /\ UNCHANGED <<sock, nmsgs, ndrops>>
        /\ IF role = "player"
           THEN IF room_full(locked)
                THEN /\ Step(t, [tk1 EXCEPT
                                   !.plan = <<Send(ErrorFrame("room full")),
                                              Discard, Close, Unlock>>,
                                   !.next = "finally"],
                             rms, rid, locked, <<>>)
                     /\ UNCHANGED issued
                ELSE LET player_id == issued + 1
                         slot == free_slot(locked)
                         p == [player_id |-> player_id, name |-> name, slot |-> slot]
                         ae == add_event([locked EXCEPT !.players = Append(@, p)],
                                         "player_joined", p)
                         meta == [role |-> "player", id |-> player_id, name |-> name]
                     IN  /\ Step(t, [tk1 EXCEPT
                                       !.client_meta = meta,
                                       !.plan = <<Unlock,
                                                  Send([type |-> "joined", you |-> meta]),
                                                  Send([type |-> "snapshot"]),
                                                  Broadcast(EventFrame(ae.evt))>>,
                                       !.next = "loop"],
                                 rms, rid, ae.room, <<ae.evt>>)
                         /\ issued' = issued + 1
           ELSE LET spectator_id == issued + 1
                    s == [spectator_id |-> spectator_id, name |-> name]
                    ae == add_event([locked EXCEPT !.spectators = Append(@, s)],
                                    "spectator_joined", s)
                    meta == [role |-> "spectator", id |-> spectator_id, name |-> name]
                IN  /\ Step(t, [tk1 EXCEPT
                                  !.client_meta = meta,
                                  !.plan = <<Unlock,
                                             Send([type |-> "joined", you |-> meta]),
                                             Send([type |-> "snapshot"]),
                                             Broadcast(EventFrame(ae.evt))>>,
                                  !.next = "loop"],
                            rms, rid, ae.room, <<ae.evt>>)
                    /\ issued' = issued + 1

(* ------------------------ sends and broadcasts ------------------------ *)
\* `await websocket.send_json(frame)` to the task's own socket completes.
\* A failure raises out of the handler: an enclosing `async with` releases
\* the lock and the coroutine falls to its finally block.
SendReply(t) ==
    LET tk == tasks[t]
        room == rooms[tk.room]
    IN  /\ tk.pc = "send"
        /\ UNCHANGED <<issued, nmsgs, ndrops>>
        /\ IF Usable(t)
           THEN /\ Reply(t, Head(tk.plan).msg)
                /\ Step(t, [tk EXCEPT !.plan = Tail(@)], rooms, tk.room, room, <<>>)
           ELSE /\ Step(t, [tk EXCEPT !.plan = <<>>, !.next = "finally"],
                        rooms, tk.room,
                        [room EXCEPT !.lock = IF @ = t THEN NoTask ELSE @], <<>>)
                /\ UNCHANGED sock

\* broadcast (lines 204-214): the send to one connection of the snapshot
\* completes or fails; after the last one broadcast either returns or goes
\* for the lock to prune.  The ws.close() after a failed send changes
\* nothing here: a socket whose send fails is down or closed already.
BroadcastSend(t, c) ==
    LET tk == tasks[t]
        room == rooms[tk.room]
        ok == Usable(c)
        left == tk.conns \ {c}
        gone == IF ok THEN tk.to_remove ELSE tk.to_remove \cup {c}
        tk1 == [tk EXCEPT !.conns = left, !.to_remove = gone]
    IN  /\ tk.pc = "broadcast"
        /\ c \in tk.conns
        /\ UNCHANGED <<issued, nmsgs, ndrops>>
        /\ IF ok THEN Deliver(c, tk.msg) ELSE UNCHANGED sock
        /\ IF left # {}
           THEN /\ tasks' = [tasks EXCEPT ![t] = tk1]
                /\ UNCHANGED <<rooms, appended>>
           ELSE IF gone # {}
                THEN /\ tasks' = [tasks EXCEPT ![t] = [tk1 EXCEPT !.pc = "prune"]]
                     /\ UNCHANGED <<rooms, appended>>
                ELSE Step(t, tk1, rooms, tk.room, room, <<>>)

\* broadcast (lines 215-218): `async with room["lock"]`, then the discards
BroadcastPrune(t) ==
    LET tk == tasks[t]
        room == rooms[tk.room]
    IN  /\ tk.pc = "prune"
        /\ lock_free(room)
        /\ UNCHANGED <<sock, issued, nmsgs, ndrops>>
        /\ Step(t, [tk EXCEPT !.to_remove = {}], rooms, tk.room,
                [room EXCEPT !.connections = @ \ tk.to_remove], <<>>)

(* ------------------------ termination, cleanup ------------------------ *)
\* the client goes away: from now on every send to the socket fails
Drop(t) ==
    /\ sock[t].open
    /\ tasks[t].pc # "done"
    /\ ndrops < MaxDrops
    /\ sock' = [sock EXCEPT ![t].open = FALSE]
    /\ ndrops' = ndrops + 1
    /\ UNCHANGED <<rooms, tasks, appended, issued, nmsgs>>

\* receive_json raises on a socket that is gone
Disconnected(t) ==
    /\ tasks[t].pc \in {"await_join", "loop"}
    /\ tasks[t].pc = "await_join" => FirstMessageTurn(t)
    /\ ~sock[t].open
    /\ tasks' = [tasks EXCEPT ![t].pc = "finally"]
    /\ UNCHANGED <<rooms, sock, appended, issued, nmsgs, ndrops>>

remove_player(players, pid) == SelectSeq(players, LAMBDA p : p.player_id # pid)
\* a variant of the filter that keeps every spectator
remove_no_spectator(spectators, sid) == spectators

remove_spectator(spectators, sid) == SelectSeq(spectators, LAMBDA s : s.spectator_id # sid)

\* the finally block (lines 552-586)
Finally(t) ==
    LET tk == tasks[t]
        meta == tk.client_meta
    IN  /\ tk.pc = "finally"
        /\ UNCHANGED <<sock, issued, nmsgs, ndrops>>
        /\ IF tk.room = NoRoom
           THEN /\ tasks' = [tasks EXCEPT ![t].pc = "done"]
                /\ UNCHANGED <<rooms, appended>>
           ELSE LET room == rooms[tk.room]
                    rm1 == [room EXCEPT !.connections = @ \ {t}]
                    tk1 == [tk EXCEPT !.next = "done"]
                IN  /\ lock_free(room)
                    /\ IF meta.role = "player"
                       THEN LET pid == meta.id
                                pname == find_player(rm1, pid).name
                                rm2 == [rm1 EXCEPT
                                          !.players = remove_player(@, pid),
                                          !.owners = [i \in 1 .. NumCards |->
                                                        IF pname # "" /\ @[i] = pname
                                                        THEN "" ELSE @[i]]]
                                ae == add_event(rm2, "player_left", [player_id |-> pid])
                            IN  Step(t, [tk1 EXCEPT !.plan = <<Broadcast(EventFrame(ae.evt))>>],
                                     rooms, tk.room, ae.room, <<ae.evt>>)
                       ELSE IF meta.role = "spectator"
                       THEN LET sid == meta.id
                                rm2 == [rm1 EXCEPT !.spectators = remove_spectator(@, sid)]
                                ae == add_event(rm2, "spectator_left", [spectator_id |-> sid])
                            IN  Step(t, [tk1 EXCEPT !.plan = <<Broadcast(EventFrame(ae.evt))>>],
                                     rooms, tk.room, ae.room, <<ae.evt>>)
                       ELSE Step(t, [tk1 EXCEPT !.plan = <<>>], rooms, tk.room, rm1, <<>>)


(* ------------------------------ the game ------------------------------ *)
\* chr(ord('A') + slot)
Letters == <<"A", "B", "C", "D", "E", "F">>
slot_label(slot) == IF slot >= 0 THEN Letters[slot + 1] ELSE Null

\* the keys of `counts` in insertion order: the owner names in the order of
\* their first card (lines 330-333)
RECURSIVE count_keys(_, _, _)
count_keys(owners, i, keys) ==
    IF i > Len(owners) THEN keys
    ELSE count_keys(owners, i + 1,
                    IF owners[i] # "" /\ owners[i] \notin Range(keys)
                    THEN Append(keys, owners[i]) ELSE keys)

\* counts[o] = counts.get(o, 0) + 1 over the owned cards
count_cards(owners) ==
    [n \in Range(count_keys(owners, 1, <<>>)) |->
        Cardinality({i \in 1 .. Len(owners) : owners[i] = n})]

\* a variant of the penalty step without the floor at 0
apply_penalties_unfloored(counts, penalties) ==
    [n \in DOMAIN counts |->
        IF n \in DOMAIN penalties THEN counts[n] - penalties[n] ELSE counts[n]]

\* counts[pname] = max(0, counts[pname] - pen) for the names in counts
apply_penalties(counts, penalties) ==
    [n \in DOMAIN counts |->
        IF n \in DOMAIN penalties THEN Max2(0, counts[n] - penalties[n])
        ELSE counts[n]]

\* the loop over counts.items() that keeps the names at the maximum
RECURSIVE pick_winners(_, _, _, _, _)
pick_winners(keys, counts, i, max_count, winners) ==
    IF i > Len(keys) THEN winners
    ELSE LET cnt == counts[keys[i]]
         IN  IF cnt > max_count
             THEN pick_winners(keys, counts, i + 1, cnt, <<keys[i]>>)
             ELSE IF cnt = max_count
             THEN pick_winners(keys, counts, i + 1, max_count, Append(winners, keys[i]))
             ELSE pick_winners(keys, counts, i + 1, max_count, winners)

\* the payload of game_finished (lines 329-366)
finish_payload(room) ==
    LET counts == apply_penalties(count_cards(room.owners), room.penalties)
        winners == pick_winners(count_keys(room.owners, 1, <<>>), counts, 1, 0, <<>>)
        winner_name == IF Len(winners) = 1 THEN winners[1] ELSE Null
        named == {i \in 1 .. Len(room.players) : room.players[i].name = winner_name}
        winner_label == IF Len(winners) = 1 /\ named # {}
                        THEN slot_label(room.players[Min(named)].slot)
                        ELSE Null
    IN  [winner |-> winner_name, winner_label |-> winner_label, counts |-> counts]

\* random.shuffle(seq), the permutation drawn being perm
shuffle(seq, perm) == [i \in 1 .. Len(seq) |-> seq[perm[i]]]

\* a variant of the play sequence whose decoys repeat letters of the table
play_sequence_repeating_table(table_letters, rnd) ==
    LET table == [i \in 1 .. Len(table_letters) |->
                     [cardPos |-> i - 1, letter |-> table_letters[i]]]
        decoys == [i \in 1 .. NumExtra |-> [cardPos |-> -1, letter |-> table_letters[i]]]
    IN  shuffle(table \o decoys, rnd.shuffle2)

\* the play sequence of a start (lines 384-394): rnd.shuffle1 shuffles the
\* pool, rnd.shuffle2 the sequence
play_sequence(table_letters, rnd) ==
    LET present == Range(table_letters)
        table == [i \in 1 .. Len(table_letters) |->
                     [cardPos |-> i - 1, letter |-> table_letters[i]]]
        free == {v \in 0 .. NumLetters - 1 : v \notin present}
        ascending == [i \in 1 .. Cardinality(free) |->
                         CHOOSE v \in free : Cardinality({w \in free : w < v}) = i - 1]
        pool == shuffle(ascending, rnd.shuffle1)
        extra == SubSeq(pool, 1, NumExtra)
        decoys == [i \in 1 .. Len(extra) |-> [cardPos |-> -1, letter |-> extra[i]]]
    IN  shuffle(table \o decoys, rnd.shuffle2)

(* ------------------------------ messages ------------------------------ *)
\* The payload of a message as the handlers read it.  object: the JSON value
\* is an object (a dict); id_type: the JSON type of payload["id"] ("null"
\* when the key is missing); id: the number Python computes with (True is
\* 1, False is 0); player: payload["player"], "" when missing.
NoPayload == [object |-> TRUE, id |-> -1, id_type |-> "null", player |-> ""]
NotAnObject == [object |-> FALSE, id |-> -1, id_type |-> "null", player |-> ""]
TakePayload(cid, player) ==
    [object |-> TRUE, id |-> cid, id_type |-> "int", player |-> player]

\* isinstance(cid, int): bool is a subclass of int
is_int(payload) == payload.id_type \in {"int", "bool"}

\* an exception no except clause catches (AttributeError of `payload.get`
\* on a value that is not a dict): an enclosing `async with` releases the
\* lock on the way out, and the coroutine falls to its finally block
Raise(t, tk) ==
    Step(t, [tk EXCEPT !.plan = <<>>, !.next = "finally"],
         rooms, tk.room, rooms[tk.room], <<>>)
NoRnd == [sample |-> <<>>, shuffle1 |-> <<>>, shuffle2 |-> <<>>]

\* a handler that answers with an error frame while it holds the lock and
\* then continues the receive loop
Refuse(t, tk, locked, e) ==
    Step(t, [tk EXCEPT !.plan = <<Send(ErrorFrame(e)), Unlock>>, !.next = "loop"],
         rooms, tk.room, locked, <<>>)

\* the broadcasts that follow an action (lines 416-426): the event, the
\* finish event if the coroutine has one, the snapshot after a start
after_action(evt, fin_evt, action) ==
    <<Unlock, Broadcast(EventFrame(evt))>>
    \o (IF fin_evt # NoEvt THEN <<Broadcast(EventFrame(fin_evt))>> ELSE <<>>)
    \o (IF action = "start" THEN <<Broadcast([type |-> "snapshot"])>> ELSE <<>>)

\* a variant of the ownership test that finds every card free
card_taken_never(room, cid) == FALSE

\* if room["owners"][cid]: the card has an owner
card_taken(room, cid) == room.owners[cid + 1] # ""

\* a variant of the penalty count that records a mistake without counting
add_penalty_uncounted(penalties, player_name) ==
    [n \in DOMAIN penalties \cup {player_name} |->
        IF n = player_name THEN 1 ELSE penalties[n]]

\* cur[player_name] = cur.get(player_name, 0) + 1
add_penalty(penalties, player_name) ==
    [n \in DOMAIN penalties \cup {player_name} |->
        (IF n \in DOMAIN penalties THEN penalties[n] ELSE 0)
        + (IF n = player_name THEN 1 ELSE 0)]

\* {"type": "action", ...} (lines 303-426)
HandleAction(t, player_id, action, payload, rnd) ==
    LET tk == tasks[t]
        room == rooms[tk.room]
        locked == [room EXCEPT !.lock = t]
        found == find_player(room, player_id)
    IN  /\ tk.pc = "loop"
        /\ sock[t].open
        /\ lock_free(room)
        /\ nmsgs' = nmsgs + 1
        /\ UNCHANGED <<sock, issued, ndrops>>
        /\ IF found = NoPlayer
           THEN Refuse(t, tk, locked, "player not in room or invalid id")
           ELSE IF action = "take"
           THEN LET cid == payload.id
                    player_name == IF payload.player # "" THEN payload.player
                                   ELSE found.name
                IN  IF ~payload.object
                    THEN Raise(t, tk)
                    ELSE IF ~is_int(payload) \/ cid < 0 \/ cid >= Len(room.owners)
                    THEN Refuse(t, tk, locked, "invalid card id")
                    ELSE IF card_taken(room, cid)
                    THEN Refuse(t, tk, locked, "card already taken")
                    ELSE LET ae == add_event(
                                     [locked EXCEPT !.owners[cid + 1] = player_name],
                                     "player_action",
                                     [player_id |-> player_id, action |-> action,
                                      payload |-> [id |-> cid, id_type |-> payload.id_type,
                                                   player |-> player_name]])
                             taken_count == Cardinality(
                                 {i \in 1 .. NumCards : ae.room.owners[i] # ""})
                             fin == add_event([ae.room EXCEPT !.started = FALSE],
                                              "game_finished", finish_payload(ae.room))
                         IN  IF taken_count >= FinishCount
                             THEN Step(t, [tk EXCEPT
                                             !.fin_evt = fin.evt,
                                             !.plan = after_action(ae.evt, fin.evt, action),
                                             !.next = "loop"],
                                       rooms, tk.room, fin.room, <<ae.evt, fin.evt>>)
                             ELSE Step(t, [tk EXCEPT
                                             !.plan = after_action(ae.evt, tk.fin_evt, action),
                                             !.next = "loop"],
                                       rooms, tk.room, ae.room, <<ae.evt>>)
           ELSE IF action = "mistake"
           THEN LET player_name == found.name
                    cur == add_penalty(room.penalties, player_name)
                    ae == add_event([locked EXCEPT !.penalties = cur], "player_penalty",
                                    [player_id |-> player_id, player |-> player_name,
                                     penalties |-> cur[player_name]])
                IN  Step(t, [tk EXCEPT !.plan = after_action(ae.evt, tk.fin_evt, action),
                                       !.next = "loop"],
                         rooms, tk.room, ae.room, <<ae.evt>>)
           ELSE IF action = "start"
           THEN LET seq == play_sequence(rnd.sample, rnd)
                    ae == add_event([locked EXCEPT
                                       !.owners = [i \in 1 .. NumCards |-> ""],
                                       !.card_letters = rnd.sample,
                                       !.play_sequence = seq,
                                       !.penalties = EmptyDict,
                                       !.started = TRUE],
                                    "game_started",
                                    [player_id |-> player_id, player |-> found.name,
                                     play_sequence |-> seq])
                IN  Step(t, [tk EXCEPT !.plan = after_action(ae.evt, tk.fin_evt, action),
                                       !.next = "loop"],
                         rooms, tk.room, ae.room, <<ae.evt>>)
           ELSE LET ae == add_event(locked, "player_action",
                                    [player_id |-> player_id, action |-> action,
                                     payload |-> payload])
                IN  Step(t, [tk EXCEPT !.plan = after_action(ae.evt, tk.fin_evt, action),
                                       !.next = "loop"],
                         rooms, tk.room, ae.room, <<ae.evt>>)

\* client_meta.get("spectator_id") / client_meta.get("player_id")
meta_spectator_id(meta) == IF meta.role = "spectator" THEN meta.id ELSE NoId
meta_player_id(meta) == IF meta.role = "player" THEN meta.id ELSE NoId

\* {"type": "become_player"} (lines 427-467)
BecomePlayer(t, data_spectator_id) ==
    LET tk == tasks[t]
        room == rooms[tk.room]
        locked == [room EXCEPT !.lock = t]
        sid == IF meta_spectator_id(tk.client_meta) # NoId
               THEN meta_spectator_id(tk.client_meta) ELSE data_spectator_id
        spec == find_spectator(room, sid)
    IN  /\ tk.pc = "loop"
        /\ sock[t].open
        /\ lock_free(room)
        /\ nmsgs' = nmsgs + 1
        /\ UNCHANGED <<sock, ndrops>>
        /\ IF sid = NoId
           THEN Refuse(t, tk, locked, "not a spectator or missing id") /\ UNCHANGED issued
           ELSE IF spec = NoSpectator
           THEN Refuse(t, tk, locked, "spectator not found") /\ UNCHANGED issued
           ELSE IF room_full(room)
           THEN Refuse(t, tk, locked, "room full") /\ UNCHANGED issued
           ELSE LET player_id == issued + 1
                    slot == free_slot(room)
                    pname == spec.name
                    p == [player_id |-> player_id, name |-> pname, slot |-> slot]
                    meta == [role |-> "player", id |-> player_id, name |-> pname]
                    ae == add_event([locked EXCEPT
                                       !.players = Append(@, p),
                                       !.spectators = remove_spectator(@, sid)],
                                    "player_joined", p)
                IN  /\ Step(t, [tk EXCEPT
                                  !.client_meta = meta,
                                  !.plan = <<Unlock,
                                             Send([type |-> "promoted", you |-> meta]),
                                             Send([type |-> "snapshot"]),
                                             Broadcast(EventFrame(ae.evt))>>,
                                  !.next = "loop"],
                            rooms, tk.room, ae.room, <<ae.evt>>)
                    /\ issued' = issued + 1

\* a variant of the two broadcasts that sends the later event first
demotion_broadcasts_reversed(evt_left, evt_spec) ==
    <<Broadcast(EventFrame(evt_spec)), Broadcast(EventFrame(evt_left))>>

\* the two broadcasts that end become_spectator (lines 498-499)
demotion_broadcasts(evt_left, evt_spec) ==
    <<Broadcast(EventFrame(evt_left)), Broadcast(EventFrame(evt_spec))>>

\* {"type": "become_spectator"} (lines 468-499)
BecomeSpectator(t, data_player_id) ==
    LET tk == tasks[t]
        room == rooms[tk.room]
        locked == [room EXCEPT !.lock = t]
        pid == IF meta_player_id(tk.client_meta) # NoId
               THEN meta_player_id(tk.client_meta) ELSE data_player_id
        found == find_player(room, pid)
    IN  /\ tk.pc = "loop"
        /\ sock[t].open
        /\ lock_free(room)
        /\ nmsgs' = nmsgs + 1
        /\ UNCHANGED <<sock, ndrops>>
        /\ IF pid = NoId
           THEN Refuse(t, tk, locked, "not a player or missing id") /\ UNCHANGED issued
           ELSE IF found = NoPlayer
           THEN Refuse(t, tk, locked, "player not found") /\ UNCHANGED issued
           ELSE LET pname == found.name
                    spectator_id == issued + 1
                    s == [spectator_id |-> spectator_id, name |-> pname]
                    meta == [role |-> "spectator", id |-> spectator_id, name |-> pname]
                    evt_left == add_event([locked EXCEPT
                                             !.spectators = Append(@, s),
                                             !.players = remove_player(@, pid)],
                                          "player_left", [player_id |-> pid])
                    evt_spec == add_event(evt_left.room, "spectator_joined", s)
                IN  /\ Step(t, [tk EXCEPT
                                  !.client_meta = meta,
                                  !.plan = <<Unlock,
                                             Send([type |-> "demoted", you |-> meta]),
                                             Send([type |-> "snapshot"])>>
                                           \o demotion_broadcasts(evt_left.evt,
                                                                  evt_spec.evt),
                                  !.next = "loop"],
                            rooms, tk.room, evt_spec.room, <<evt_left.evt, evt_spec.evt>>)
                    /\ issued' = issued + 1

\* {"type": "chat"} (lines 500-523); payload.object: the payload is a dict,
\* payload.has_message: it holds a string under "message"
Chat(t, player_id, spectator_id, name, payload) ==
    LET tk == tasks[t]
        room == rooms[tk.room]
        locked == [room EXCEPT !.lock = t]
        p == find_player(room, player_id)
        s == find_spectator(room, spectator_id)
        sender_name == IF player_id # NoId /\ p # NoPlayer THEN p.name
                       ELSE IF spectator_id # NoId /\ s # NoSpectator THEN s.name
                       ELSE IF name # "" THEN name
                       ELSE Anonymous
        ae == add_event(locked, "chat_message", [from |-> sender_name, message |-> "hi"])
    IN  /\ tk.pc = "loop"
        /\ sock[t].open
        /\ nmsgs' = nmsgs + 1
        /\ UNCHANGED <<sock, issued, ndrops>>
        /\ IF ~payload.object
           THEN Raise(t, tk)
           ELSE IF ~payload.has_message
           THEN Step(t, [tk EXCEPT !.plan = <<Send(ErrorFrame("invalid chat payload"))>>,
                                   !.next = "loop"],
                     rooms, tk.room, room, <<>>)
           ELSE /\ lock_free(room)
                /\ Step(t, [tk EXCEPT !.plan = <<Unlock, Broadcast(EventFrame(ae.evt))>>,
                                      !.next = "loop"],
                        rooms, tk.room, ae.room, <<ae.evt>>)

\* {"type": "leave"} (lines 524-544): the broadcast runs inside the
\* `async with`, the break leads to the finally block
Leave(t, role, token) ==
    LET tk == tasks[t]
        room == rooms[tk.room]
        locked == [room EXCEPT !.lock = t]
        players == remove_player(room.players, token)
        spectators == remove_spectator(room.spectators, token)
        pl == add_event([locked EXCEPT !.players = players],
                        "player_left", [player_id |-> token])
        sl == add_event([locked EXCEPT !.spectators = spectators],
                        "spectator_left", [spectator_id |-> token])
    IN  /\ tk.pc = "loop"
        /\ sock[t].open
        /\ lock_free(room)
        /\ nmsgs' = nmsgs + 1
        /\ UNCHANGED <<sock, issued, ndrops>>
        /\ IF role = "player" /\ Len(players) # Len(room.players)
           THEN Step(t, [tk EXCEPT !.plan = <<Broadcast(EventFrame(pl.evt)), Unlock>>,
                                   !.next = "finally"],
                     rooms, tk.room, pl.room, <<pl.evt>>)
           ELSE IF role = "spectator" /\ Len(spectators) # Len(room.spectators)
           THEN Step(t, [tk EXCEPT !.plan = <<Broadcast(EventFrame(sl.evt)), Unlock>>,
                                   !.next = "finally"],
                     rooms, tk.room, sl.room, <<sl.evt>>)
           ELSE Step(t, [tk EXCEPT !.plan = <<Unlock>>, !.next = "finally"],
                     rooms, tk.room, locked, <<>>)

\* any other message type (lines 545-547)
UnknownType(t) ==
    LET tk == tasks[t]
    IN  /\ tk.pc = "loop"
        /\ sock[t].open
        /\ nmsgs' = nmsgs + 1
        /\ UNCHANGED <<sock, issued, ndrops>>
        /\ Step(t, [tk EXCEPT !.plan = <<Send(ErrorFrame("unknown message type"))>>,
                              !.next = "loop"],
                rooms, tk.room, rooms[tk.room], <<>>)

(* ------------------------------- inputs ------------------------------- *)
\* ids a client may name: every token issued so far, or none
Ids == 0 .. issued
\* the id the server gave the client of connection t
OwnId(t) == tasks[t].client_meta.id
\* the ids registered in room r
LiveIds(r) ==
    IF r = NoRoom THEN {}
    ELSE {rooms[r].players[i].player_id : i \in 1 .. Len(rooms[r].players)}
         \cup {rooms[r].spectators[i].spectator_id : i \in 1 .. Len(rooms[r].spectators)}
\* the names are interchangeable: the first connection is ann's (a symmetry
\* reduction)
NameChoices(t) == IF t = 1 THEN {"ann"} ELSE Names
CardIds == 0 .. NumCards
Reverse(n) == [i \in 1 .. n |-> n + 1 - i]
\* payloads of a take: an id below, inside and above the range of the
\* cards, the booleans, a string, no id at all, a payload that is no object
TakePayloads ==
    {TakePayload(cid, "") : cid \in {-1, 0, NumCards}}
    \cup {[object |-> TRUE, id |-> b, id_type |-> "bool", player |-> ""] : b \in {0, 1}}
    \cup {[object |-> TRUE, id |-> -1, id_type |-> "str", player |-> ""]}
    \cup {NoPayload, NotAnObject}
\* payloads of a chat: an object with a string message, an object without,
\* a value that is no object (null, a string, a list)
ChatPayloads ==
    {[object |-> TRUE, has_message |-> TRUE], [object |-> TRUE, has_message |-> FALSE],
     [object |-> FALSE, has_message |-> FALSE]}

(* --------------------------- specifications --------------------------- *)
Roles == {"player", "spectator"}

\* the clients have sent fewer than n messages after their joins
Budget(n) == nmsgs < n

\* what task t does between two of its suspension points
TaskStep(t, C) ==
    \/ SendReply(t)
    \/ \E c \in C : BroadcastSend(t, c)
    \/ BroadcastPrune(t)
    \/ Finally(t)

Progress(C) == \E t \in C : TaskStep(t, C)

\* Spec: two websockets in the fixed room, every interleaving: membership
\* messages, takes of the first card, a transport drop.
SessionConns == 1 .. NumSessionConns

Next ==
    \/ \E t \in SessionConns : \E r \in FixedRoomIds, role \in Roles, name \in NameChoices(t) :
          Join(t, r, role, name)
    \/ \E t \in SessionConns :
          Budget(MaxMsgs)
          /\ HandleAction(t, OwnId(t), "take", TakePayload(0, ""), NoRnd)
    \/ \E t \in SessionConns : Budget(MaxMsgs) /\ BecomePlayer(t, NoId)
    \/ \E t \in SessionConns : Budget(MaxMsgs) /\ BecomeSpectator(t, NoId)
    \/ \E t \in SessionConns : \E role \in Roles, token \in LiveIds(tasks[t].room) :
          Budget(MaxMsgs) /\ Leave(t, role, token)
    \/ \E t \in SessionConns : Drop(t)
    \/ \E t \in SessionConns : Disconnected(t)
    \/ Progress(SessionConns)

Spec == Init /\ [][Next]_vars

\* SpecJoin: three websockets compete for the two player seats of the fixed
\* room: joins, promotions and leaves, every interleaving.
NextJoin ==
    \/ \E t \in Conns : \E r \in FixedRoomIds, role \in Roles : Join(t, r, role, "ann")
    \/ \E t \in Conns : Budget(MaxJoinMsgs) /\ BecomePlayer(t, NoId)
    \/ \E t \in Conns : Budget(MaxJoinMsgs) /\ Leave(t, tasks[t].client_meta.role, OwnId(t))
    \/ Progress(Conns)

SpecJoin == Init /\ [][NextJoin]_vars

\* SpecLeave: two players of the fixed room who leave or drop; every task
\* that can run does run (the event loop resumes every ready coroutine).
NextLeave ==
    \/ \E t \in SessionConns : \E r \in FixedRoomIds : Join(t, r, "player", "ann")
    \/ \E t \in SessionConns : Budget(MaxMsgs) /\ Leave(t, "player", OwnId(t))
    \/ \E t \in SessionConns : Drop(t)
    \/ \E t \in SessionConns : Disconnected(t)
    \/ Progress(SessionConns)

SpecLeave ==
    /\ Init
    /\ [][NextLeave]_vars
    /\ \A t \in SessionConns : WF_vars(TaskStep(t, SessionConns) \/ Disconnected(t))

\* SpecTake: the websockets of the fixed room race for the first card: two
\* players and the spectators after them, each request naming a registered
\* player; nobody leaves.
PlayerIds(r) ==
    IF r = NoRoom THEN {}
    ELSE {rooms[r].players[i].player_id : i \in 1 .. Len(rooms[r].players)}

TakeRole(t) == IF t <= DefaultMaxPlayers THEN "player" ELSE "spectator"
TakeName(t) == IF t = 2 THEN "bob" ELSE "ann"
TakeCards == {0}

NextTake ==
    \/ \E t \in Conns : \E r \in FixedRoomIds : Join(t, r, TakeRole(t), TakeName(t))
    \/ \E t \in Conns : \E pid \in PlayerIds(tasks[t].room), cid \in TakeCards :
          Budget(MaxTakes)
          /\ HandleAction(t, pid, "take", TakePayload(cid, ""), NoRnd)
    \/ \E t \in Conns : SendReply(t)
    \/ \E t \in Conns, c \in Conns : BroadcastSend(t, c)

SpecTake == Init /\ [][NextTake]_vars

\* no coroutine is inside a handler: the clients of SpecGame and SpecDeal
\* send their next message when the server has dealt with the last one
Quiet == \A t \in Conns : tasks[t].pc \in {"await_join", "loop"}

\* SpecGame: two players play the cards of the fixed room, one message at a
\* time: takes (for themselves, or the first card for the name "zed" that
\* no player has) and mistakes.
NextGame ==
    \/ \E t \in SessionConns : \E r \in FixedRoomIds, name \in NameChoices(t) :
          Quiet /\ Join(t, r, "player", name)
    \/ \E t \in SessionConns : \E cid \in 0 .. NumCards - 1 :
          /\ Quiet /\ Budget(MaxGameMsgs)
          /\ HandleAction(t, OwnId(t), "take", TakePayload(cid, ""), NoRnd)
    \/ /\ Quiet /\ Budget(MaxGameMsgs)
       /\ HandleAction(1, OwnId(1), "take", TakePayload(0, "zed"), NoRnd)
    \/ \E t \in SessionConns :
          /\ Quiet /\ Budget(MaxGameMsgs)
          /\ HandleAction(t, OwnId(t), "mistake", NoPayload, NoRnd)
    \/ \E t \in SessionConns, c \in SessionConns : BroadcastSend(t, c)
    \/ \E t \in SessionConns : SendReply(t)

SpecGame == Init /\ [][NextGame]_vars

\* SpecDeal: one player starts a game; the outcomes of random.sample are
\* all the deals, those of random.shuffle the rotations and the reversal.
Injective(f) == \A i, j \in DOMAIN f : i # j => f[i] # f[j]
Rotation(n, k) == [i \in 1 .. n |-> ((i + k - 1) % n) + 1]
ShuffleChoices(n) == {Rotation(n, k) : k \in 0 .. n - 1} \cup {Reverse(n)}
DealChoices ==
    {[sample |-> d, shuffle1 |-> p1, shuffle2 |-> p2] :
        d \in {f \in [1 .. NumCards -> 0 .. NumLetters - 1] : Injective(f)},
        p1 \in ShuffleChoices(NumLetters - NumCards),
        p2 \in ShuffleChoices(NumCards + NumExtra)}

NextDeal ==
    \/ \E r \in FixedRoomIds : Join(1, r, "player", "ann")
    \/ \E rnd \in DealChoices :
          Budget(MaxStarts) /\ HandleAction(1, OwnId(1), "start", NoPayload, rnd)
    \/ BroadcastSend(1, 1)
    \/ SendReply(1)

SpecDeal == Init /\ [][NextDeal]_vars

\* SpecHandshake: the first messages of three websockets: a message that is
\* no join, a join naming no room, a room that is not there, the fixed room,
\* or a room_id that cannot be a key.
RoomChoices == FixedRoomIds \cup {NoRoom}

NextHandshake ==
    \/ \E t \in Conns : FirstNotJoin(t)
    \/ \E t \in Conns : \E room_id \in AdhocRoomIds : JoinRoomNotFound(t, room_id)
    \/ \E t \in Conns : JoinUnhashableRoomId(t)
    \/ \E t \in Conns : \E room_id \in RoomChoices, role \in Roles :
          Join(t, room_id, role, "ann")
    \/ Progress(Conns)

SpecHandshake == Init /\ [][NextHandshake]_vars

\* SpecErrors: two players and a spectator of the fixed room send well-formed
\* and malformed messages, one message at a time; no transport fails.
NextErrors ==
    \/ \E t \in Conns : \E r \in FixedRoomIds : Quiet /\ Join(t, r, TakeRole(t), "ann")
    \/ \E t \in Conns : \E pid \in {OwnId(t), NoId}, payload \in TakePayloads :
          /\ Quiet /\ Budget(MaxErrMsgs)
          /\ HandleAction(t, pid, "take", payload, NoRnd)
    \/ \E t \in Conns : \E action \in {"mistake", "wave"} :
          /\ Quiet /\ Budget(MaxErrMsgs)
          /\ HandleAction(t, OwnId(t), action, NotAnObject, NoRnd)
    \/ \E t \in Conns : \E sid \in {OwnId(t), NoId} :
          Quiet /\ Budget(MaxErrMsgs) /\ BecomePlayer(t, sid)
    \/ \E t \in Conns : \E pid \in {OwnId(t), NoId} :
          Quiet /\ Budget(MaxErrMsgs) /\ BecomeSpectator(t, pid)
    \/ \E t \in Conns : \E payload \in ChatPayloads :
          Quiet /\ Budget(MaxErrMsgs) /\ Chat(t, NoId, NoId, "", payload)
    \/ \E t \in Conns : Quiet /\ Budget(MaxErrMsgs) /\ UnknownType(t)
    \/ \E t \in Conns : SendReply(t)
    \/ \E t \in Conns, c \in Conns : BroadcastSend(t, c)
    \/ \E t \in Conns : Finally(t)

SpecErrors == Init /\ [][NextErrors]_vars

\* SpecRoles: the websockets of the fixed room change roles, every
\* interleaving: a request names no id or any id registered in the room;
\* nobody leaves and no transport fails.
NextRoles ==
    \/ \E t \in SessionConns : \E r \in FixedRoomIds, role \in Roles, name \in NameChoices(t) :
          Join(t, r, role, name)
    \/ \E t \in SessionConns : \E sid \in LiveIds(tasks[t].room) \cup {NoId} :
          Budget(MaxRoleMsgs) /\ BecomePlayer(t, sid)
    \/ \E t \in SessionConns : \E pid \in LiveIds(tasks[t].room) \cup {NoId} :
          Budget(MaxRoleMsgs) /\ BecomeSpectator(t, pid)
    \/ \E t \in SessionConns : SendReply(t)
    \/ \E t \in SessionConns, c \in SessionConns : BroadcastSend(t, c)

SpecRoles == Init /\ [][NextRoles]_vars

\* SpecPenalty: two players of the fixed room, who may bear the same name,
\* send mistakes, takes of the first card and starts, one message at a
\* time; a start deals the first letters in order or the last in reverse.
PenaltyDeals ==
    {[sample |-> d, shuffle1 |-> Reverse(NumLetters - NumCards),
      shuffle2 |-> Reverse(NumCards + NumExtra)] :
        d \in {FirstDeal, [i \in 1 .. NumCards |-> NumLetters - i]}}

NextPenalty ==
    \/ \E t \in SessionConns : \E r \in FixedRoomIds, name \in NameChoices(t) :
          Quiet /\ Join(t, r, "player", name)
    \/ \E t \in SessionConns :
          /\ Quiet /\ Budget(MaxPenaltyMsgs)
          /\ HandleAction(t, OwnId(t), "mistake", NoPayload, NoRnd)
    \/ \E t \in SessionConns :
          /\ Quiet /\ Budget(MaxPenaltyMsgs)
          /\ HandleAction(t, OwnId(t), "take", TakePayload(0, ""), NoRnd)
    \/ \E t \in SessionConns : \E rnd \in PenaltyDeals :
          /\ Quiet /\ Budget(MaxPenaltyMsgs)
          /\ HandleAction(t, OwnId(t), "start", NoPayload, rnd)
    \/ \E t \in SessionConns, c \in SessionConns : BroadcastSend(t, c)
    \/ \E t \in SessionConns : SendReply(t)

SpecPenalty == Init /\ [][NextPenalty]_vars

\* SpecRooms: two websockets that join the fixed room or a room of their
\* own, every interleaving: takes, demotions and leaves naming any id the
\* server has issued, a transport drop.
NextRooms ==
    \/ \E t \in SessionConns : \E room_id \in RoomChoices, role \in Roles :
          Join(t, room_id, role, "ann")
    \/ \E t \in SessionConns : \E pid \in Ids :
          /\ Budget(MaxRoomMsgs)
          /\ HandleAction(t, pid, "take", TakePayload(0, ""), NoRnd)
    \/ \E t \in SessionConns : \E pid \in Ids :
          Budget(MaxRoomMsgs) /\ BecomeSpectator(t, pid)
    \/ \E t \in SessionConns : \E role \in Roles, token \in Ids :
          Budget(MaxRoomMsgs) /\ Leave(t, role, token)
    \/ \E t \in SessionConns : Drop(t)
    \/ \E t \in SessionConns : Disconnected(t)
    \/ Progress(SessionConns)

SpecRooms == Init /\ [][NextRooms]_vars

\* SpecGone: two websockets join the fixed room and send nothing more; one
\* may go away at any moment, also in the middle of its join; every task
\* that can run does run.
NextGone ==
    \/ \E t \in SessionConns : \E r \in FixedRoomIds, role \in Roles : Join(t, r, role, "ann")
    \/ \E t \in SessionConns : Drop(t)
    \/ \E t \in SessionConns : Disconnected(t)
    \/ Progress(SessionConns)

SpecGone ==
    /\ Init
    /\ [][NextGone]_vars
    /\ \A t \in SessionConns : WF_vars(TaskStep(t, SessionConns) \/ Disconnected(t))

(* ----------------------------- properties ----------------------------- *)
\* the highest id in a history of events, 0 for the empty history
MaxId(h) ==
    IF h = <<>> THEN 0
    ELSE CHOOSE m \in {h[i].id : i \in 1 .. Len(h)} : \A i \in 1 .. Len(h) : h[i].id <= m

\* C2: in every room next_event_id - 1 is the highest event id ever assigned
\* (0 when none was): the ids start at 1 and every add_event assigns the
\* current next_event_id and adds one, so the i-th event ever appended has
\* id i, no id is used twice and the counter never goes back, also after
\* old events were trimmed from the list.
C2_NextEventId ==
    \A r \in DOMAIN rooms :
        LET h == appended[r]
        IN  /\ rooms[r].next_event_id - 1 = MaxId(h)
            /\ \A i \in 1 .. Len(h) : h[i].id = i

\* ids were assigned after the list was trimmed
C2_Witness ==
    \E r \in DOMAIN rooms : rooms[r].next_event_id > MAX_EVENTS_PER_ROOM + 2

\* C3: the events list of a room holds at most MAX_EVENTS_PER_ROOM entries
\* and is always the most recent suffix of everything ever appended:
\* trimming drops only the oldest entries, and the ids in the list increase
\* by exactly one from each entry to the next.
C3_EventsRetained ==
    \A r \in DOMAIN rooms :
        LET e == rooms[r].events
            h == appended[r]
            n == Len(h)
            k == Len(e)
        IN  /\ k <= MAX_EVENTS_PER_ROOM
            /\ k = IF n <= MAX_EVENTS_PER_ROOM THEN n ELSE MAX_EVENTS_PER_ROOM
            /\ e = SubSeq(h, n - k + 1, n)
            /\ \A i \in 1 .. k - 1 : e[i + 1].id = e[i].id + 1

\* a full list whose oldest entries were dropped
C3_Witness ==
    \E r \in DOMAIN rooms :
        /\ Len(rooms[r].events) = MAX_EVENTS_PER_ROOM
        /\ rooms[r].events[1].id > 1

\* C6: leaving is idempotent: a player_left / spectator_left event for one
\* identity is appended at most once, only by the removal that changed the
\* membership; the history of a room never holds two left events of the same
\* type for the same id.
C6_LeftOnce ==
    \A r \in DOMAIN rooms :
        LET h == appended[r]
        IN  \A i, j \in 1 .. Len(h) :
                (i < j /\ h[i].type \in {"player_left", "spectator_left"}
                       /\ h[i].type = h[j].type)
                => h[i].payload # h[j].payload

\* C7: a connection that a broadcast failed to send to is removed from
\* room.connections: whenever a task has recorded connection c in the
\* to_remove list of its broadcast, c eventually is out of the set.
C7_FailedRemoved ==
    \A t \in SessionConns, c \in SessionConns, r \in FixedRoomIds :
        (tasks[t].room = r /\ c \in tasks[t].to_remove)
        ~> (c \notin rooms[r].connections)

\* C10: when the cleanup of a player's connection has run, the connection
\* is not in room.connections, the player is not in room.players and no
\* owners slot holds the player's display name.
C10_CleanupRemovesPlayer ==
    [][\A t \in Conns :
          (tasks[t].pc = "finally" /\ tasks'[t].pc # "finally"
           /\ tasks[t].client_meta.role = "player")
          => LET r == tasks[t].room
                 meta == tasks[t].client_meta
             IN  /\ t \notin rooms'[r].connections
                 /\ find_player(rooms'[r], meta.id) = NoPlayer
                 /\ \A i \in 1 .. NumCards : rooms'[r].owners[i] # meta.name]_vars

\* the join of task t was refused: it has a room and no identity
Refused(t) == tasks[t].room # NoRoom /\ tasks[t].client_meta = NoMeta

\* the smallest non-negative integer that is not in S
MinFree(S) == CHOOSE n \in 0 .. Cardinality(S) : n \notin S /\ \A m \in 0 .. n - 1 : m \in S

Slots(room) == {room.players[i].slot : i \in 1 .. Len(room.players)}

\* C4: under any interleaving of joins and become_player requests a room
\* never has more than max_players players.  A join is refused exactly when
\* it asks for a seat in a room at capacity: the step adds no player and
\* appends no event, and when the refused coroutine has ended the client
\* has received the error "room full" and the connection is out of
\* room.connections.
C4_RoomFull ==
    /\ [](\A r \in DOMAIN rooms : Len(rooms[r].players) <= rooms[r].max_players)
    /\ [](\A t \in Conns :
             (Refused(t) /\ tasks[t].pc = "done")
             => /\ t \notin rooms[tasks[t].room].connections
                /\ sock[t].replies = <<ErrorFrame("room full")>>)
    /\ [][\A t \in Conns :
             (tasks[t].pc = "await_join" /\ tasks'[t].pc # "await_join")
             => LET r == tasks'[t].room
                IN  IF Refused(t)'
                    THEN /\ Len(rooms[r].players) >= rooms[r].max_players
                         /\ rooms'[r].players = rooms[r].players
                         /\ rooms'[r].events = rooms[r].events
                         /\ rooms'[r].next_event_id = rooms[r].next_event_id
                         /\ appended' = appended
                    ELSE tasks'[t].client_meta.role = "player"
                         => Len(rooms[r].players) < rooms[r].max_players]_vars

\* a join was refused in a room with two players and its coroutine has ended
C4_Witness ==
    \E t \in Conns :
        /\ Refused(t)
        /\ tasks[t].pc = "done"
        /\ Len(rooms[tasks[t].room].players) = DefaultMaxPlayers

\* C5: the slots of the players of a room are pairwise distinct, and a
\* player created by join or become_player is appended with the smallest
\* non-negative integer no player of the room was using at that moment
\* (slot 0 again after the holder of slot 0 has left).
C5_Slots ==
    /\ [](\A r \in DOMAIN rooms :
             \A i, j \in 1 .. Len(rooms[r].players) :
                 i # j => rooms[r].players[i].slot # rooms[r].players[j].slot)
    /\ [][\A r \in DOMAIN rooms :
             Len(rooms'[r].players) > Len(rooms[r].players)
             => /\ rooms'[r].players
                     = Append(rooms[r].players, Last(rooms'[r].players))
                /\ Last(rooms'[r].players).slot = MinFree(Slots(rooms[r]))]_vars

\* the holder of slot 0 left and the next player was given slot 0
C5_Witness ==
    \E r \in DOMAIN rooms :
        /\ Len(rooms[r].players) = 2
        /\ rooms[r].players[1].slot = 1
        /\ rooms[r].players[2].slot = 0

\* the take events for card cid in the history h of a room
Takes(h, cid) ==
    {i \in 1 .. Len(h) : /\ h[i].type = "player_action"
                         /\ h[i].payload.action = "take"
                         /\ h[i].payload.payload.id = cid}

AlreadyTaken == ErrorFrame("card already taken")

\* the "card already taken" errors connection t has received or is being sent
TakenErrors(t) ==
    Cardinality({i \in 1 .. Len(sock[t].replies) : sock[t].replies[i] = AlreadyTaken})
    + (IF tasks[t].pc = "send" /\ Head(tasks[t].plan).msg = AlreadyTaken THEN 1 ELSE 0)

RECURSIVE SumOver(_, _)
SumOver(S, f) ==
    IF S = {} THEN 0
    ELSE LET x == CHOOSE y \in S : TRUE IN f[x] + SumOver(S \ {x}, f)

\* C1: when several connections send take for the same unowned card, each
\* with a registered player_id, then under every interleaving exactly one
\* request succeeds: it sets owners[id] and appends the only player_action
\* event for that card; every other request changes nothing in the room
\* and its connection receives the error "card already taken".
C1_TakeOnce ==
    /\ [](\A r \in DOMAIN rooms : \A cid \in 0 .. NumCards - 1 :
             LET h == appended[r]
                 won == Takes(h, cid)
             IN  /\ Cardinality(won) <= 1
                 /\ rooms[r].owners[cid + 1] # "" <=> won # {}
                 /\ \A i \in won : rooms[r].owners[cid + 1] = h[i].payload.payload.player)
    /\ [](nmsgs = SumOver(Conns, [t \in Conns |-> TakenErrors(t)])
                  + SumOver(DOMAIN rooms,
                            [r \in DOMAIN rooms |->
                               Cardinality(UNION {Takes(appended[r], cid) :
                                                     cid \in 0 .. NumCards - 1})]))
    /\ [][\A t \in Conns :
             (tasks[t].pc = "loop" /\ tasks'[t].pc # "loop")
             => LET r == tasks[t].room
                    n == Len(appended[r])
                IN  IF appended'[r] # appended[r]
                    THEN LET e == appended'[r][n + 1]
                             cid == e.payload.payload.id
                         IN  /\ n + 1 \in Takes(appended'[r], cid)
                             /\ rooms[r].owners[cid + 1] = ""
                             /\ rooms'[r].owners =
                                  [rooms[r].owners EXCEPT ![cid + 1] = e.payload.payload.player]
                    ELSE /\ rooms'[r].owners = rooms[r].owners
                         /\ TakenErrors(t)' = TakenErrors(t) + 1]_vars

\* three requests for the first card: one connection is still broadcasting
\* the event of its take, two others have the error already
C1_Witness ==
    \E t, u, v \in Conns :
        /\ t # u /\ t # v /\ u # v
        /\ tasks[t].pc = "broadcast"
        /\ tasks[t].msg.type = "player_action"
        /\ AlreadyTaken \in Range(sock[u].replies)
        /\ AlreadyTaken \in Range(sock[v].replies)

\* the positions of the entries of sequence seq tagged with card position k
Tagged(seq, k) == {i \in 1 .. Len(seq) : seq[i].cardPos = k}

\* the game_started events in the history h
Starts(h) == {i \in 1 .. Len(h) : h[i].type = "game_started"}

\* C8: after a start the play sequence has NumCards + NumExtra entries (19
\* in the source): for every card position exactly one entry tagged with it,
\* whose letter is card_letters at that position, and NumExtra entries (9)
\* tagged with no position, whose letters are not in card_letters; all the
\* letters are pairwise distinct and lie in [0, NumLetters) ([0, 100));
\* the last game_started event carries this same sequence.
C8_PlaySequence ==
    \A r \in DOMAIN rooms :
        LET seq == rooms[r].play_sequence
            letters == rooms[r].card_letters
            h == appended[r]
        IN  Starts(h) # {}
            => /\ Len(seq) = NumCards + NumExtra
               /\ \A k \in 0 .. NumCards - 1 :
                     /\ Cardinality(Tagged(seq, k)) = 1
                     /\ \A i \in Tagged(seq, k) : seq[i].letter = letters[k + 1]
               /\ Cardinality(Tagged(seq, -1)) = NumExtra
               /\ \A i \in Tagged(seq, -1) : seq[i].letter \notin Range(letters)
               /\ \A i, j \in 1 .. Len(seq) : i # j => seq[i].letter # seq[j].letter
               /\ \A i \in 1 .. Len(seq) : seq[i].letter \in 0 .. NumLetters - 1
               /\ \A i \in Starts(h) :
                     (\A j \in Starts(h) : j <= i) => h[i].payload.play_sequence = seq

\* a game was started on a deal other than the first, a decoy opens the
\* sequence
C8_Witness ==
    \E r \in DOMAIN rooms :
        /\ rooms[r].started
        /\ rooms[r].card_letters # FirstDeal
        /\ rooms[r].play_sequence # <<>>
        /\ rooms[r].play_sequence[1].cardPos = -1

\* the cards name n owns in a room
Owned(room, n) == Cardinality({i \in 1 .. NumCards : room.owners[i] = n})
Penalty(room, n) == IF n \in DOMAIN room.penalties THEN room.penalties[n] ELSE 0
Adjusted(room, n) == Max2(0, Owned(room, n) - Penalty(room, n))
Owners(room) == {room.owners[i] : i \in 1 .. NumCards} \ {""}
\* the names whose adjusted count is the maximum
Top(room) == {n \in Owners(room) : \A m \in Owners(room) : Adjusted(room, m) <= Adjusted(room, n)}

\* C9: a game_finished event carries counts mapping every name that owns a
\* card to max(0, cards owned - penalties of the name); winner is the one
\* name whose adjusted count is the maximum, null when several names share
\* it; winner_label is the letter of the slot of a registered player with
\* the winner's name, null when there is no winner or no such player.
C9_GameFinished ==
    [][\A r \in DOMAIN rooms :
          (Len(appended'[r]) > Len(appended[r])
           /\ Last(appended'[r]).type = "game_finished")
          => LET fin == Last(appended'[r]).payload
                 room == rooms'[r]
                 named == {i \in 1 .. Len(room.players) : room.players[i].name = fin.winner}
             IN  /\ DOMAIN fin.counts = Owners(room)
                 /\ \A n \in Owners(room) : fin.counts[n] = Adjusted(room, n)
                 /\ IF Cardinality(Top(room)) = 1
                    THEN fin.winner \in Top(room)
                    ELSE fin.winner = Null
                 /\ IF fin.winner = Null \/ named = {}
                    THEN fin.winner_label = Null
                    ELSE \E i \in named :
                            fin.winner_label = Letters[room.players[i].slot + 1]]_vars

\* a game has finished with a count floored at 0 and a winner that has a
\* label
C9_Witness ==
    \E r \in DOMAIN rooms :
        /\ appended[r] # <<>>
        /\ Last(appended[r]).type = "game_finished"
        /\ Last(appended[r]).payload.winner_label # Null
        /\ \E n \in DOMAIN Last(appended[r]).payload.counts :
              /\ Last(appended[r]).payload.counts[n] = 0
              /\ Owned(rooms[r], n) < Penalty(rooms[r], n)

\* task t is inside an `async with room["lock"]` block: its release is
\* still to come
InSection(t) == \E i \in 1 .. Len(tasks[t].plan) : tasks[t].plan[i] = Unlock

\* the fields of a room that only a holder of its lock may write
Protected(room) ==
    <<room.players, room.spectators, room.connections, room.owners,
      room.card_letters, room.play_sequence, room.penalties, room.started,
      room.events, room.next_event_id>>

\* C11: per room at most one task is inside a section protected by the
\* lock, and it is the holder of the lock; every change of players,
\* spectators, connections, owners, card_letters, play_sequence, penalties,
\* started, events and next_event_id is made by a step that found the lock
\* free and took it, or by the task that holds it; the event ids of a room
\* follow the order in which the events were appended.
C11_LockDiscipline ==
    /\ [](\A r \in DOMAIN rooms :
             LET inside == {t \in Conns : tasks[t].room = r /\ InSection(t)}
             IN  /\ Cardinality(inside) <= 1
                 /\ \A t \in inside : rooms[r].lock = t
                 /\ rooms[r].lock # NoTask => rooms[r].lock \in inside)
    /\ [](\A r \in DOMAIN rooms :
             \A i, j \in 1 .. Len(appended[r]) :
                 i < j => appended[r][i].id < appended[r][j].id)
    /\ [][\A r \in DOMAIN rooms :
             Protected(rooms'[r]) # Protected(rooms[r])
             => \/ rooms[r].lock = NoTask
                \/ \E t \in Conns : rooms[r].lock = t /\ tasks'[t] # tasks[t]]_vars

\* a task holds the lock across a send while another task, its socket
\* gone, waits for the lock to run its cleanup
C11_Witness ==
    \E t, u \in Conns :
        /\ t # u
        /\ tasks[t].room # NoRoom
        /\ rooms[tasks[t].room].lock = t
        /\ tasks[u].room = tasks[t].room
        /\ tasks[u].pc = "finally"

\* C12: a connection whose first message was not a join, or was a
\* malformed join, has received an error frame when its coroutine has
\* ended, and it was never added to the connections of a room.
C12_BadFirstMessage ==
    \A t \in Conns :
        (tasks[t].pc = "done" /\ tasks[t].room = NoRoom /\ sock[t].open)
        => /\ Len(sock[t].replies) = 1
           /\ sock[t].replies[1].type = "error"
           /\ \A r \in DOMAIN rooms : t \notin rooms[r].connections

\* the fields of a room that a refused request leaves alone
GameState(room) ==
    <<room.players, room.spectators, room.owners, room.penalties, room.started,
      room.events, room.next_event_id>>

\* this step of task t does nothing but prepare one error frame for its own
\* socket, after which it goes back to the receive loop
ErrorOnly(t) ==
    LET r == tasks[t].room
        plan == tasks'[t].plan
    IN  /\ tasks'[t].pc = "send"
        /\ Head(plan).op = "send"
        /\ Head(plan).msg.type = "error"
        /\ \A i \in 2 .. Len(plan) : plan[i].op = "unlock"
        /\ tasks'[t].next = "loop"
        /\ tasks'[t].client_meta = tasks[t].client_meta
        /\ GameState(rooms'[r]) = GameState(rooms[r])
        /\ appended' = appended
        /\ sock' = sock

\* the id of a take payload is no integer that names a card
BadCard(payload) == ~(payload.id_type = "int" /\ payload.id \in 0 .. NumCards - 1)

\* the take of task t cannot succeed: the player id is unknown, the card id
\* is no integer in range, or the card has an owner
FailingTake(t, pid, payload) ==
    LET room == rooms[tasks[t].room]
    IN  \/ find_player(room, pid) = NoPlayer
        \/ payload.object /\ BadCard(payload)
        \/ payload.object /\ ~BadCard(payload) /\ room.owners[payload.id + 1] # ""

\* the become_player of task t cannot succeed: no id, no such spectator, or
\* no seat
FailingPromotion(t, data_spectator_id) ==
    LET room == rooms[tasks[t].room]
        own == meta_spectator_id(tasks[t].client_meta)
        sid == IF own # NoId THEN own ELSE data_spectator_id
    IN  \/ sid = NoId
        \/ find_spectator(room, sid) = NoSpectator
        \/ Len(room.players) >= room.max_players

\* the become_spectator of task t cannot succeed: no id, or no such player
FailingDemotion(t, data_player_id) ==
    LET room == rooms[tasks[t].room]
        own == meta_player_id(tasks[t].client_meta)
        pid == IF own # NoId THEN own ELSE data_player_id
    IN  pid = NoId \/ find_player(room, pid) = NoPlayer

\* C13: for a connection that has joined, an action with an unknown
\* player_id, a take whose card id is not an integer in the range of the
\* cards, a take of an owned card, and a failing become_player or
\* become_spectator each prepare an error frame for the sender only and
\* leave players, spectators, owners, penalties, started, events and
\* next_event_id unchanged; nothing is broadcast and the connection goes
\* back to the receive loop.
C13_ErrorsChangeNothing ==
    [][\A t \in Conns :
          (\/ \E pid \in {OwnId(t), NoId}, payload \in TakePayloads :
                /\ HandleAction(t, pid, "take", payload, NoRnd)
                /\ FailingTake(t, pid, payload)
           \/ \E sid \in {OwnId(t), NoId} :
                BecomePlayer(t, sid) /\ FailingPromotion(t, sid)
           \/ \E pid \in {OwnId(t), NoId} :
                BecomeSpectator(t, pid) /\ FailingDemotion(t, pid))
          => ErrorOnly(t)]_vars

\* C14: a join without room_id creates one new room under an id that no
\* room had, also while other ad-hoc joins are under way, and leaves the
\* other rooms alone; a join naming an existing id attaches to that room
\* and creates none; a join naming an id that is not there is answered
\* with "room not found" and creates none; an id in the registry stays
\* there, bound to the same room: its room_id, its event history and its
\* event counter are never reset.
C14_RoomResolution ==
    /\ [][\A t \in Conns :
             /\ (\E role \in Roles : Join(t, NoRoom, role, "ann"))
                => /\ tasks'[t].room \notin DOMAIN rooms
                   /\ DOMAIN rooms' = DOMAIN rooms \cup {tasks'[t].room}
                   /\ t \in rooms'[tasks'[t].room].connections
                   /\ \A r \in DOMAIN rooms : rooms'[r] = rooms[r]
             /\ \A room_id \in FixedRoomIds \cup AdhocRoomIds :
                   /\ (\E role \in Roles : Join(t, room_id, role, "ann"))
                      => /\ tasks'[t].room = room_id
                         /\ t \in rooms'[room_id].connections
                         /\ DOMAIN rooms' = DOMAIN rooms
                   /\ JoinRoomNotFound(t, room_id)
                      => /\ rooms' = rooms
                         /\ tasks'[t].room = NoRoom
                         /\ Last(sock'[t].replies) = ErrorFrame("room not found")]_vars
    /\ [][\A r \in DOMAIN rooms :
             /\ r \in DOMAIN rooms'
             /\ rooms'[r].room_id = rooms[r].room_id
             /\ rooms'[r].next_event_id >= rooms[r].next_event_id
             /\ Len(appended'[r]) >= Len(appended[r])
             /\ SubSeq(appended'[r], 1, Len(appended[r])) = appended[r]]_vars

\* two ad-hoc rooms were made by joins that overlapped: the first joiner
\* has not had its replies yet when the second holds its own room
C14_Witness ==
    \E t, u \in Conns :
        /\ tasks[t].room \in AdhocRoomIds
        /\ tasks[u].room \in AdhocRoomIds
        /\ tasks[t].room # tasks[u].room
        /\ tasks[t].pc = "send"
        /\ tasks[u].pc = "send"

\* C15: no task is in a send to its own socket, inside broadcast's loop
\* over the connections or at broadcast's pruning while it holds the lock
\* of its room: the lock is released before any frame goes out.
C15_NoSendUnderLock ==
    \A t \in Conns :
        tasks[t].pc \in {"send", "broadcast", "prune"}
        => rooms[tasks[t].room].lock # t

\* the number of cards of a room that have an owner
Claimed(room) == Cardinality({i \in 1 .. Len(room.owners) : room.owners[i] # ""})

\* the events this step appended to the log of room r
NewEvents(r) ==
    IF r \in DOMAIN appended
    THEN SubSeq(appended'[r], Len(appended[r]) + 1, Len(appended'[r]))
    ELSE appended'[r]

\* C16: a step appends a game_finished event exactly when it is a take
\* that raises the number of owned cards to the finishing count (9 of 10
\* in the source), and that step sets started to false; a take that raises
\* the count beyond it appends none.
C16_FinishedAtNine ==
    [][\A r \in DOMAIN rooms :
          LET finished == \E i \in 1 .. Len(NewEvents(r)) :
                              NewEvents(r)[i].type = "game_finished"
          IN  /\ finished <=> /\ Claimed(rooms[r]) = FinishCount - 1
                              /\ Claimed(rooms'[r]) = FinishCount
              /\ finished => ~rooms'[r].started]_vars

\* the frames of room r's events i and i + 1 reach connection c in that
\* order: when the first is delivered, the second has not been
InOrder(r, i, c) ==
    LET first == EventFrame(appended[r][i])
        second == EventFrame(appended[r][i + 1])
    IN  (first \in sock'[c].events /\ first \notin sock[c].events)
        => second \notin sock[c].events

\* C17: a successful become_spectator removes the player entry and no
\* other, appends a spectator entry with the player's name under a new id,
\* makes that spectator the identity of the connection, and appends
\* player_left and then spectator_joined with consecutive ids; no
\* connection gets the spectator_joined frame of the operation before its
\* player_left frame.
C17_BecomeSpectator ==
    /\ [][\A t \in Conns : \A data_player_id \in Ids :
             (BecomeSpectator(t, data_player_id) /\ ~FailingDemotion(t, data_player_id))
             => LET r == tasks[t].room
                    own == meta_player_id(tasks[t].client_meta)
                    pid == IF own # NoId THEN own ELSE data_player_id
                    found == find_player(rooms[r], pid)
                    s == Last(rooms'[r].spectators)
                    new == NewEvents(r)
                IN  /\ rooms'[r].players = SelectSeq(rooms[r].players, LAMBDA p : p # found)
                    /\ Len(rooms'[r].players) = Len(rooms[r].players) - 1
                    /\ rooms'[r].spectators = Append(rooms[r].spectators, s)
                    /\ s.name = found.name
                    /\ s.spectator_id \notin LiveIds(r)
                    /\ tasks'[t].client_meta =
                          [role |-> "spectator", id |-> s.spectator_id, name |-> found.name]
                    /\ Len(new) = 2
                    /\ new[1].type = "player_left"
                    /\ new[1].payload.player_id = pid
                    /\ new[2].type = "spectator_joined"
                    /\ new[2].payload.spectator_id = s.spectator_id
                    /\ new[2].id = new[1].id + 1]_vars
    /\ [][\A r \in DOMAIN rooms : \A i \in 1 .. Len(appended[r]) - 1 :
             (appended[r][i].type = "player_left"
              /\ appended[r][i + 1].type = "spectator_joined")
             => \A c \in Conns : InOrder(r, i, c)]_vars

\* a connection other than the one that became a spectator has received
\* both frames of the operation
C17_Witness ==
    \E r \in DOMAIN rooms : \E i \in 1 .. Len(appended[r]) - 1 : \E t, c \in Conns :
        /\ appended[r][i].type = "player_left"
        /\ appended[r][i + 1].type = "spectator_joined"
        /\ tasks[t].client_meta.id = appended[r][i + 1].payload.spectator_id
        /\ c # t
        /\ EventFrame(appended[r][i]) \in sock[c].events
        /\ EventFrame(appended[r][i + 1]) \in sock[c].events

\* C18: a successful become_player removes the identified spectator entry
\* and no other, appends one player entry with that spectator's name, an
\* id no member of the room has and a slot no player has, makes that
\* player the identity of the requesting connection, and appends exactly
\* one event, player_joined; players and spectators together are as many
\* as before.
C18_BecomePlayer ==
    [][\A t \in Conns : \A data_spectator_id \in Ids :
          (BecomePlayer(t, data_spectator_id) /\ ~FailingPromotion(t, data_spectator_id))
          => LET r == tasks[t].room
                 own == meta_spectator_id(tasks[t].client_meta)
                 sid == IF own # NoId THEN own ELSE data_spectator_id
                 spec == find_spectator(rooms[r], sid)
                 p == Last(rooms'[r].players)
                 new == NewEvents(r)
             IN  /\ rooms'[r].spectators =
                       SelectSeq(rooms[r].spectators, LAMBDA x : x # spec)
                 /\ Len(rooms'[r].spectators) = Len(rooms[r].spectators) - 1
                 /\ rooms'[r].players = Append(rooms[r].players, p)
                 /\ p.name = spec.name
                 /\ p.player_id \notin LiveIds(r)
                 /\ \A i \in 1 .. Len(rooms[r].players) : rooms[r].players[i].slot # p.slot
                 /\ tasks'[t].client_meta =
                       [role |-> "player", id |-> p.player_id, name |-> spec.name]
                 /\ Len(new) = 1
                 /\ new[1].type = "player_joined"
                 /\ new[1].payload = p
                 /\ Len(rooms'[r].players) + Len(rooms'[r].spectators)
                       = Len(rooms[r].players) + Len(rooms[r].spectators)]_vars

\* a connection was promoted while the room had a player already, and has
\* its reply
C18_Witness ==
    \E t \in Conns :
        /\ tasks[t].client_meta.role = "player"
        /\ tasks[t].room # NoRoom
        /\ Len(rooms[tasks[t].room].players) = 2
        /\ \E i \in 1 .. Len(sock[t].replies) :
              /\ sock[t].replies[i].type = "promoted"
              /\ sock[t].replies[i].you = tasks[t].client_meta

\* C19: after its join a connection that sends a message of an unknown
\* type, a chat whose payload holds no string message (an object without
\* one, or a value that is no object), or an action whose payload is no
\* object is answered with one error frame; the room is unchanged and the
\* connection goes back to the receive loop.
C19_MalformedNotFatal ==
    [][\A t \in Conns :
          (\/ UnknownType(t)
           \/ \E payload \in ChatPayloads :
                ~payload.has_message /\ Chat(t, NoId, NoId, "", payload)
           \/ \E action \in {"take", "mistake", "wave"} :
                HandleAction(t, OwnId(t), action, NotAnObject, NoRnd))
          => ErrorOnly(t)]_vars

\* the fields of a room that neither a mistake nor its event touches
Table(room) ==
    <<room.room_id, room.max_players, room.players, room.spectators,
      room.connections, room.owners, room.card_letters, room.play_sequence,
      room.started>>

\* C20: an accepted mistake adds exactly 1 to the penalty counter of the
\* acting player's name (one counter per name, whoever bears it), leaves
\* the counters of the other names and every other field of the room but
\* the event log as they were, and its player_penalty event carries the
\* new count; a successful start leaves every card without an owner, no
\* penalties, and started true.
C20_MistakeAndStart ==
    [][\A t \in Conns :
          LET r == tasks[t].room
              found == find_player(rooms[r], OwnId(t))
              new == NewEvents(r)
          IN  /\ (HandleAction(t, OwnId(t), "mistake", NoPayload, NoRnd)
                  /\ found # NoPlayer)
                 => /\ Penalty(rooms'[r], found.name) = Penalty(rooms[r], found.name) + 1
                    /\ DOMAIN rooms'[r].penalties
                          = DOMAIN rooms[r].penalties \cup {found.name}
                    /\ \A n \in DOMAIN rooms[r].penalties \ {found.name} :
                          rooms'[r].penalties[n] = rooms[r].penalties[n]
                    /\ Table(rooms'[r]) = Table(rooms[r])
                    /\ Len(new) = 1
                    /\ new[1].type = "player_penalty"
                    /\ new[1].payload.player = found.name
                    /\ new[1].payload.penalties = rooms'[r].penalties[found.name]
              /\ \A rnd \in PenaltyDeals :
                    (HandleAction(t, OwnId(t), "start", NoPayload, rnd)
                     /\ found # NoPlayer)
                    => /\ rooms'[r].owners = [i \in 1 .. NumCards |-> ""]
                       /\ rooms'[r].penalties = EmptyDict
                       /\ rooms'[r].started]_vars

\* two players bearing one name have both made a mistake in one game, and
\* a game with a card taken and a penalty counted was started anew
C20_Witness ==
    \E r \in DOMAIN rooms :
        LET h == appended[r]
        IN  /\ \E i, j \in 1 .. Len(h) :
                  /\ i < j
                  /\ h[i].type = "player_penalty"
                  /\ h[j].type = "player_penalty"
                  /\ h[i].payload.player = h[j].payload.player
                  /\ h[i].payload.player_id # h[j].payload.player_id
                  /\ h[j].payload.penalties = 2
            /\ \E i, j, k \in 1 .. Len(h) :
                  /\ i < k /\ j < k
                  /\ h[i].type = "player_penalty"
                  /\ h[j].type = "player_action"
                  /\ h[k].type = "game_started"
                  /\ \A m \in k + 1 .. Len(h) : h[m].type # "player_penalty"
                  /\ rooms[r].penalties = EmptyDict

\* the state of a room that the traffic of another room must not touch
Isolated(room) ==
    <<room.players, room.spectators, room.owners, room.penalties, room.started,
      room.events, room.next_event_id, room.connections>>

\* C21: a step of a task attached to room R (a message it handles, one of
\* its sends, its cleanup) leaves players, spectators, owners, penalties,
\* started, events, next_event_id and connections of every other room as
\* they were, and a frame it broadcasts reaches only websockets that
\* joined R.
C21_RoomsIsolated ==
    [][\A t \in Conns :
          (tasks'[t] # tasks[t] /\ tasks'[t].room # NoRoom)
          => /\ \A r \in DOMAIN rooms \ {tasks'[t].room} :
                   /\ Isolated(rooms'[r]) = Isolated(rooms[r])
                   /\ appended'[r] = appended[r]
             /\ \A c \in Conns :
                   sock'[c].events # sock[c].events => tasks[c].room = tasks'[t].room]_vars

\* two websockets sit in two rooms; one has handled a message and ended
\* its cleanup while the other room still has its member
C21_Witness ==
    \E t, u \in Conns :
        /\ tasks[t].room # NoRoom
        /\ tasks[u].room # NoRoom
        /\ tasks[t].room # tasks[u].room
        /\ tasks[t].pc = "done"
        /\ Len(appended[tasks[t].room]) >= 3
        /\ Len(rooms[tasks[u].room].players) + Len(rooms[tasks[u].room].spectators) = 1
        /\ sock[u].events # {}

\* the frames of events (they carry an id) among a set of frames
EventFrames(frames) == {m \in frames : "id" \in DOMAIN m}

\* C22: a connection gets the event frames of its room in the order of
\* their ids: when a frame is delivered, no frame with a higher id has
\* been delivered to that connection before.
C22_DeliveryInIdOrder ==
    [][\A c \in Conns :
          \A m \in EventFrames(sock'[c].events \ sock[c].events) :
              \A n \in EventFrames(sock[c].events) : n.id < m.id]_vars

\* C23: no task waits at broadcast's pruning for a lock it holds itself,
\* and a task that holds the lock of a room eventually gives it up, also
\* when a send of its broadcast has failed.
C23_LockDeadlockFree ==
    /\ [](\A t \in Conns :
             tasks[t].pc = "prune" => rooms[tasks[t].room].lock # t)
    /\ \A t \in SessionConns, r \in FixedRoomIds :
          (rooms[r].lock = t) ~> (rooms[r].lock # t)

\* C24: when every connection that joined a room has ended its cleanup,
\* the room has no player and no spectator.
C24_NoIdentityOutlives ==
    \A r \in DOMAIN rooms :
        (\A t \in Conns : tasks[t].room = r => tasks[t].pc = "done")
        => rooms[r].players = <<>> /\ rooms[r].spectators = <<>>

\* the frames task t is about to broadcast after this step: those its plan
\* holds and the one of the broadcast it has entered
Planned(t) ==
    {tasks'[t].plan[i].msg :
        i \in {j \in 1 .. Len(tasks'[t].plan) : tasks'[t].plan[j].op = "broadcast"}}
    \cup (IF tasks'[t].pc = "broadcast" THEN {tasks'[t].msg} ELSE {})

\* C25: an event is broadcast by the operation that appended it and by no
\* other: when a task takes up a message or its cleanup, every event frame
\* it sets out to broadcast is the frame of an event appended in that step.
C25_BroadcastOnce ==
    [][\A t \in Conns :
          (tasks[t].pc \in {"await_join", "loop", "finally"} /\ tasks'[t] # tasks[t]
           /\ tasks'[t].room # NoRoom)
          => LET new == NewEvents(tasks'[t].room)
             IN  \A m \in EventFrames(Planned(t)) :
                     \E i \in 1 .. Len(new) : EventFrame(new[i]) = m]_vars

\* connection c was attached to room r when the i-th event of r was
\* appended: the event of c's own join comes earlier in the history
AttachedBefore(c, r, i) ==
    /\ tasks[c].room = r
    /\ i <= Len(appended[r])
    /\ \E j \in 1 .. i - 1 :
          /\ appended[r][j].type \in {"player_joined", "spectator_joined"}
          /\ tasks[c].client_meta.id \in
                {appended[r][j].payload[k] :
                    k \in DOMAIN appended[r][j].payload \cap {"player_id", "spectator_id"}}

\* the frame of the i-th event of room r has reached connection c
Received(c, r, i) ==
    /\ i <= Len(appended[r])
    /\ EventFrame(appended[r][i]) \in sock[c].events

\* C26: an event appended to the log of a room reaches every connection
\* that was attached to the room when it was appended, unless that
\* connection goes away; this also when the replies to the connection
\* that caused the event could not be sent.
C26_EventsBroadcast ==
    \A c \in SessionConns, r \in FixedRoomIds, i \in 1 .. 2 * NumSessionConns :
        AttachedBefore(c, r, i)
        ~> (Received(c, r, i) \/ ~sock[c].open)
====
